---------------------------- MODULE Spec2Model ----------------------------
(***************************************************************************)
(* W2CAD -> RFA300 transcoder (W2Parser.py).                               *)
(*                                                                         *)
(* Strings the program splits are represented by the sequence of their     *)
(* parts (a date by its "-"-separated parts, a field size by its           *)
(* "*"-separated parts, a sample line by its " "-separated tokens); a      *)
(* numeric string is a token record [sgn, lead, ip, fr]: its sign          *)
(* character, its number of extra leading zeros, its integer part and the  *)
(* digits after the decimal point.  float() and the "{:.1f}" / "{:.0f}"    *)
(* formats are computed on that representation.                            *)
(***************************************************************************)
EXTENDS Integers, Sequences, FiniteSets, TLC

VARIABLES
    file_path,          \* W2Parser.file_path
    lines,              \* the lines fp.readline() has returned so far
    pc,                 \* control position of the running operation
    err,                \* the exception that ended it, or "None"
    num_scans,          \* W2Parser.num_scans
    measurement_count,  \* read_w2 local
    energy,             \* read_w2 local
    measurement,        \* read_w2 local: 0 = unbound, else a reference into heap
    heap,               \* the W2CADMeasurement objects allocated so far
    measurement_list,   \* W2Parser.measurement_list: references into heap
    rfa_header,         \* write_rfa_file local
    rfa_measurements,   \* write_rfa_measurements local
    rfa_footer,         \* write_rfa_file local
    k,                  \* write_rfa_measurements: loop position
    out_file,           \* the output file: Absent, or its lines
    files,              \* process_files: the files os.walk discovers, in order
    fi,                 \* process_files: loop position
    outputs             \* process_files: output file of each discovered file

readerVars == <<file_path, lines, num_scans, measurement_count, energy, measurement>>
objVars == <<heap, measurement_list>>
writerVars == <<rfa_header, rfa_measurements, rfa_footer, k, out_file>>
batchVars == <<files, fi, outputs>>
vars == <<pc, err, readerVars, objVars, writerVars, batchVars>>

\* ---------------------------------------------------------------- bounds
MaxLines == 6
MaxNums == 2
MaxRecs == 2
MaxSamples == 2
MaxFiles == 3

\* ------------------------------------------------------ values and strings
\* No exception; an exception of type `type` raised by the expression `at`.
None == [type |-> "None", at |-> ""]
Exc(type, at) == [type |-> type, at |-> at]

\* An optional integer (num_scans: int | None).
NoInt == [some |-> FALSE, v |-> 0]
SomeInt(n) == [some |-> TRUE, v |-> n]

\* A file on disk: not created, or its text as a sequence of lines.
Absent == [exists |-> FALSE, text |-> <<>>]
FileOf(text) == [exists |-> TRUE, text |-> text]

\* A numeric string: sign character, extra leading zeros, integer part, the
\* digits after the decimal separator, and the separator character.
Tok(s, l, i, f) == [sgn |-> s, lead |-> l, ip |-> i, fr |-> f, dp |-> "."]
NotANumber == Tok("?", 0, 0, <<>>)
\* What stands where no numeric string is: an attribute never set, a regular
\* expression that did not match.
NoAttr == Tok("<no attribute>", 0, 0, <<>>)
NoMatch == Tok("<no match>", 0, 0, <<>>)

\* float(s): the value in hundredths, with its sign; ok = FALSE is ValueError.
\* -0.0 keeps its sign, as an IEEE double does.  The numeric strings of this
\* model have at most two digits after the point.
float(t) ==
    [ok |-> t.sgn \in {"", "+", "-"},
     neg |-> t.sgn = "-",
     hund |-> t.ip * 100
              + (IF Len(t.fr) >= 1 THEN t.fr[1] * 10 ELSE 0)
              + (IF Len(t.fr) >= 2 THEN t.fr[2] ELSE 0)]

\* Round n/10 to the nearest integer, ties to even: what the "f" formats give
\* for a double that is not a tie, and for a tie that is exact in binary
\* (hundredths 25 and 75, the only ties among the inputs drawn below).
RoundHalfEven(n) ==
    LET q == n \div 10
        r == n % 10
    IN IF r > 5 \/ (r = 5 /\ q % 2 = 1) THEN q + 1 ELSE q

\* f"{float(t):.1f}"
Fmt1(t) ==
    LET v == float(t)
        tenths == RoundHalfEven(v.hund)
    IN Tok(IF v.neg THEN "-" ELSE "", 0, tenths \div 10, <<tenths % 10>>)

\* f"{float(t)*10:.0f}"
Fmt0Times10(t) ==
    LET v == float(t)
    IN Tok(IF v.neg THEN "-" ELSE "", 0, RoundHalfEven(v.hund), <<>>)

\* ------------------------------------------------- W2CADMeasurement
w2cad_measurement_dictionary ==
    [x \in {"%DATE", "%VERSION", "%DETY", "%BMTY", "%TYPE", "%WDGL", "%WDGD",
            "%AXIS", "%PNTS", "%STEP", "%SSD", "%SPD", "%FLSZ", "%DPTH"} |->
        CASE x = "%DATE" -> "date"
          [] x = "%VERSION" -> "version"
          [] x = "%DETY" -> "detector_type"
          [] x = "%BMTY" -> "beam_type"
          [] x = "%TYPE" -> "data_type"
          [] x = "%WDGL" -> "wedge_name"
          [] x = "%WDGD" -> "wedge_direction"
          [] x = "%AXIS" -> "axis"
          [] x = "%PNTS" -> "points"
          [] x = "%STEP" -> "step"
          [] x = "%SSD" -> "SSD"
          [] x = "%SPD" -> "SPD"
          [] x = "%FLSZ" -> "field_size"
          [] x = "%DPTH" -> "depth"]

\* W2CADMeasurement(measurement_count, energy): the dataclass defaults.  SPD
\* is no declared field: it exists only once setattr has created it.
W2CADMeasurement(n, e) ==
    [measurement_number |-> n,
     energy |-> e,
     date |-> <<"">>,
     version |-> "",
     detector_type |-> "",
     beam_type |-> "",
     data_type |-> "",
     wedge_name |-> "0",
     wedge_direction |-> "",
     axis |-> "",
     points |-> "",
     step |-> "",
     SSD |-> "",
     SPD |-> NoAttr,
     field_size |-> <<"">>,
     depth |-> Tok("", 0, 0, <<>>),
     data_line |-> <<>>]

\* ------------------------------------------------ destination text
\* One line of destination text: its fixed part, then its string fields, its
\* numeric fields and its integer field.
TextLine(tag, s, t, n) == [tag |-> tag, s |-> s, t |-> t, n |-> n]
Fixed(tag) == TextLine(tag, <<>>, <<>>, NoInt)
Blank == Fixed("")

\* ------------------------------------------------ write_rfa_datablock
scan_type_mapping ==
    [x \in {"OPD", "OPP", "WDD", "WDD_SSD80", "WDD_SSD120", "WDP", "WLP", "DPR",
            "BLD", "MeasuredDepthDosesForApplicator",
            "MeasuredDepthDosesForOpenBeam", "MeasuredProfileForOpenBeam"} |->
        CASE x \in {"OPP", "WDP", "WLP", "MeasuredProfileForOpenBeam"} -> "PRO"
          [] x = "DPR" -> "DIA"
          [] OTHER -> "DPT"]

detector_type_mapping_with_diamond ==
    [x \in {"CHA", "DIO", "DIA"} |->
        CASE x = "CHA" -> "ION" [] x = "DIO" -> "SEM" [] x = "DIA" -> "UDF"]
detector_type_mapping ==
    [x \in {"CHA", "DIO"} |-> IF x = "CHA" THEN "ION" ELSE "SEM"]

beam_type_mapping == [x \in {"PHO", "ELE"} |-> x]

measurement_type_mapping_no_DPR ==
    [x \in {"OPD", "OPP", "WDD", "WDP"} |->
        CASE x = "OPD" -> "1" [] x = "OPP" -> "2" [] x = "WDD" -> "5" [] x = "WDP" -> "6"]
measurement_type_mapping ==
    [x \in {"OPD", "OPP", "WDD", "WDD_SSD80", "WDD_SSD120", "WDP", "WLP", "BLD",
            "DPR", "MeasuredProfileForOpenBeam", "MeasuredDepthDosesForApplicator",
            "MeasuredDepthDosesForOpenBeam"} |->
        CASE x \in {"OPD", "BLD", "MeasuredDepthDosesForApplicator",
                    "MeasuredDepthDosesForOpenBeam"} -> "1"
          [] x \in {"OPP", "DPR", "MeasuredProfileForOpenBeam"} -> "2"
          [] x \in {"WDD", "WDD_SSD80", "WDD_SSD120"} -> "5"
          [] x \in {"WDP", "WLP"} -> "6"]

\* rfa_prd.replace(".", ",")
DecimalComma(t) == [t EXCEPT !.dp = ","]

\* rfa_ssd / rfa_brd (lines 106-117): SSD as read, or SPD * 10 when SSD is "".
UsesSPD(m) == m.SSD = ""
SsdLine(tag, m) ==
    IF UsesSPD(m) THEN TextLine(tag, <<>>, <<Fmt0Times10(m.SPD)>>, NoInt)
    ELSE TextLine(tag, <<m.SSD>>, <<>>, NoInt)

\* y, x, z, dose = line.split(" ") and the four formats (lines 216-221):
\* the fields of the "=" line, in the order written.
SampleFieldsUnswapped(line) == <<Fmt1(line[1]), Fmt1(line[2]), Fmt1(line[3]), Fmt1(line[4])>>
SampleFields(line) == <<Fmt1(line[2]), Fmt1(line[1]), Fmt1(line[3]), Fmt1(line[4])>>

\* %STS / %EDS (lines 155-170): x, y, z of a sample; its dose is not parsed.
ScanPoint(line) == <<Fmt1(line[2]), Fmt1(line[1]), Fmt1(line[3])>>

AllFloat(toks) == \A i \in 1..Len(toks) : float(toks[i]).ok

\* The first sample line the loop of lines 214-221 cannot convert, or 0.
BadSample(data_line) ==
    LET bad == {i \in 1..Len(data_line) :
                    Len(data_line[i]) # 4 \/ ~AllFloat(data_line[i])}
    IN IF bad = {} THEN 0 ELSE CHOOSE i \in bad : \A j \in bad : i <= j

Failed(type, at) == [ok |-> FALSE, err |-> Exc(type, at), text |-> <<>>]

scan_header_block(m) ==
    <<Fixed("#"),
      Fixed("# RFA300 ASCII Measurement Dump ( BDS format )"),
      Fixed("#"),
      TextLine("# Measurement number", <<>>, <<>>, SomeInt(m.measurement_number)),
      Fixed("#"),
      Fixed("%VNR 1.0"),
      Fixed("%MOD RAT"),
      Fixed("%TYP SCN"),
      TextLine("%SCN", <<scan_type_mapping[m.data_type]>>, <<>>, NoInt),
      TextLine("%FLD", <<detector_type_mapping[m.detector_type]>>, <<>>, NoInt),
      TextLine("%DAT", <<m.date[2], m.date[1], m.date[3]>>, <<>>, NoInt),
      Fixed("%TIM 12:00:00"),
      TextLine("%FSZ", m.field_size, <<>>, NoInt),
      TextLine("%BMT", <<beam_type_mapping[m.beam_type]>>, <<Fmt1(m.energy)>>, NoInt),
      SsdLine("%SSD", m),
      Fixed("%BUP 0"),
      SsdLine("%BRD", m),
      Fixed("%FSH 1"),
      Fixed("%ASC 0"),
      TextLine("%WEG", <<m.wedge_name>>, <<>>, NoInt),
      Fixed("%GPO 0"),
      Fixed("%CPO 0"),
      TextLine("%MEA", <<measurement_type_mapping[m.data_type]>>, <<>>, NoInt),
      TextLine("%PRD", <<>>, <<DecimalComma(Fmt1(m.depth))>>, NoInt),
      TextLine("%PTS", <<m.points>>, <<>>, NoInt),
      TextLine("%STS", <<>>, ScanPoint(m.data_line[1]), NoInt),
      TextLine("%EDS", <<>>, ScanPoint(m.data_line[Len(m.data_line)]), NoInt)>>

scan_data_block(m) ==
    <<Fixed("#"), Fixed("# X Y Z Dose"), Fixed("#")>>
    \o [i \in 1..Len(m.data_line) |->
            TextLine("=", <<>>, SampleFields(m.data_line[i]), NoInt)]
    \o <<Fixed(":EOM # End of Measurement")>>

\* write_rfa_datablock (lines 61-225): the block's lines, or the first
\* exception in the order the statements run.
write_rfa_datablock(m) ==
    IF m.data_type \notin DOMAIN scan_type_mapping
        THEN Failed("KeyError", "scan_type_mapping")
    ELSE IF m.detector_type \notin DOMAIN detector_type_mapping
        THEN Failed("KeyError", "detector_type_mapping")
    ELSE IF Len(m.date) # 3
        THEN Failed("ValueError", "date.split")
    ELSE IF Len(m.field_size) # 2
        THEN Failed("ValueError", "field_size.split")
    ELSE IF m.beam_type \notin DOMAIN beam_type_mapping
        THEN Failed("KeyError", "beam_type_mapping")
    ELSE IF ~float(m.energy).ok
        THEN Failed("ValueError", "float(energy)")
    ELSE IF UsesSPD(m) /\ m.SPD = NoAttr
        THEN Failed("AttributeError", "SPD")
    ELSE IF UsesSPD(m) /\ ~float(m.SPD).ok
        THEN Failed("ValueError", "float(SPD)")
    ELSE IF m.data_type \notin DOMAIN measurement_type_mapping
        THEN Failed("KeyError", "measurement_type_mapping")
    ELSE IF ~float(m.depth).ok
        THEN Failed("ValueError", "float(depth)")
    ELSE IF m.data_line = <<>>
        THEN Failed("IndexError", "data_line[0]")
    ELSE IF Len(m.data_line[1]) # 4 \/ ~AllFloat(SubSeq(m.data_line[1], 1, 3))
        THEN Failed("ValueError", "starting_point")
    ELSE IF Len(m.data_line[Len(m.data_line)]) # 4
            \/ ~AllFloat(SubSeq(m.data_line[Len(m.data_line)], 1, 3))
        THEN Failed("ValueError", "end_point")
    ELSE IF BadSample(m.data_line) # 0
        THEN Failed("ValueError", "data_line")
    ELSE [ok |-> TRUE, err |-> None,
          text |-> scan_header_block(m) \o scan_data_block(m)]

\* ------------------------------------------------ W2Parser writers
write_rfa_header(ns) ==
    <<TextLine(":MSR", <<>>, <<>>, ns), Fixed(":SYS BDS 0   # Beam Data Scanner System")>>

write_rfa_footer == <<Fixed(":EOF # End of File")>>

\* One iteration of the loop of write_rfa_measurements (lines 295-296) on the
\* text so far: the record's block appended, or its exception.
AppendBlockInFront(acc, m) ==
    LET b == write_rfa_datablock(m)
    IN IF b.ok THEN [b EXCEPT !.text = @ \o acc.text] ELSE b
AppendBlock(acc, m) ==
    LET b == write_rfa_datablock(m)
    IN IF b.ok THEN [b EXCEPT !.text = acc.text \o @] ELSE b

NoText == [ok |-> TRUE, err |-> None, text |-> <<>>]

RECURSIVE MeasurementsFrom(_, _, _, _)
MeasurementsFrom(acc, h, ml, i) ==
    IF ~acc.ok \/ i > Len(ml) THEN acc
    ELSE MeasurementsFrom(AppendBlock(acc, h[ml[i]]), h, ml, i + 1)

\* write_rfa_measurements (lines 293-297) over the objects h and the list ml.
write_rfa_measurements(h, ml) == MeasurementsFrom(NoText, h, ml, 1)

\* rfa_header + "\n" + rfa_measurements + "\n" + rfa_footer (line 312): every
\* block ends with a line break, so the second "\n" leaves an empty line.
JoinFile(header, measurements, footer) == header \o measurements \o <<Blank>> \o footer

\* write_rfa_file (lines 307-319) up to the text handed to fp.write.
write_rfa_file(ns, h, ml) ==
    LET ms == write_rfa_measurements(h, ml)
    IN IF ms.ok
       THEN [ms EXCEPT !.text = JoinFile(write_rfa_header(ns), ms.text, write_rfa_footer)]
       ELSE ms

\* ------------------------------------------------------- source lines
Line(kind, key, toks, n) == [k |-> kind, key |-> key, toks |-> toks, n |-> n]
NumsLine(n) == Line("NUMS", "$NUMS", <<>>, n)
StomLine == Line("STOM", "$STOM", <<>>, 0)
EnomLine == Line("ENOM", "$ENOM", <<>>, 0)
OtherLine == Line("OTHER", "", <<>>, 0)
EofLine == Line("EOF", "", <<>>, 0)
\* "%KEY v1 v2 ...": key is the first whitespace-delimited token, toks the rest
TagLine(key, toks) == Line("TAG", key, toks, 0)
\* "<a b c d>": toks are the " "-separated tokens between the brackets
SampleLine(toks) == Line("SAMPLE", "<", toks, 0)

\* ------------------------------------------------------------ read_w2
\* The state of one read_w2 call, as a record.
ReaderState(p, e, ns, mc, m, h, ml, x) ==
    [pc |-> p, err |-> e, num_scans |-> ns, measurement_count |-> mc,
     measurement |-> m, heap |-> h, measurement_list |-> ml, energy |-> x]

Raise(st, type, at) == [st EXCEPT !.pc = "raised", !.err = Exc(type, at)]

\* Lines 235-246: the suffix check and the energy search.
ReadStart(path) ==
    LET st == ReaderState("loop", None, NoInt, 0, 0, <<>>, <<>>, NoMatch)
    IN IF path.suffix # ".ASC" THEN Raise(st, "ValueError", "endswith")
       ELSE IF path.name_energy # NoMatch
            THEN [st EXCEPT !.energy = path.name_energy]
       ELSE IF path.path_energy # NoMatch
            THEN [st EXCEPT !.energy = path.path_energy]
       ELSE Raise(st, "AttributeError", "energy_match.group")

\* Lines 252-254; the trailing token is an integer in every line drawn here.
OnNums(st, line) == [st EXCEPT !.num_scans = SomeInt(line.n)]

OnStom(st) ==
    LET c == st.measurement_count + 1
    IN [st EXCEPT !.measurement_count = c,
                  !.heap = Append(st.heap, W2CADMeasurement(c, st.energy)),
                  !.measurement = Len(st.heap) + 1]

\* line.startswith(key) for some key of the dictionary: the first token is
\* a key, or a key followed by more characters (written key \o "...").
StartsWithKey(line) == line.k = "TAG"

OnTag(st, line) ==
    IF Len(line.toks) # 1 THEN Raise(st, "ValueError", "key, value = line.split()")
    ELSE IF line.key \notin DOMAIN w2cad_measurement_dictionary THEN Raise(st, "KeyError", "w2cad_measurement_dictionary")
    ELSE [st EXCEPT !.heap[st.measurement][w2cad_measurement_dictionary[line.key]] =
                        line.toks[1]]

OnSample(st, line) ==
    [st EXCEPT !.heap[st.measurement].data_line = Append(@, line.toks)]

OnEnomTwice(st) ==
    [st EXCEPT !.measurement_list = Append(Append(@, st.measurement), st.measurement)]
OnEnom(st) ==
    [st EXCEPT !.measurement_list = Append(@, st.measurement)]

\* One iteration of the while loop (lines 250-281) on the line just read.
ReadLine(st, line) ==
    IF line.k = "NUMS" THEN OnNums(st, line)
    ELSE IF line.k = "STOM" THEN OnStom(st)
    ELSE IF st.measurement = 0 THEN Raise(st, "UnboundLocalError", "measurement")
    ELSE IF StartsWithKey(line) THEN OnTag(st, line)
    ELSE IF line.k = "SAMPLE" THEN OnSample(st, line)
    ELSE IF line.k = "ENOM" THEN OnEnom(st)
    ELSE IF line.k = "EOF" THEN [st EXCEPT !.pc = "returned"]
    ELSE st

\* read_w2 run over a whole file: every line, then the empty string readline()
\* returns at end of input.
RECURSIVE ReadLines(_, _)
ReadLines(st, ls) ==
    IF st.pc # "loop" THEN st
    ELSE IF ls = <<>> THEN ReadLine(st, EofLine)
    ELSE ReadLines(ReadLine(st, Head(ls)), Tail(ls))

read_w2(path, ls) == ReadLines(ReadStart(path), ls)

\* ------------------------------------------------ inputs of the reader
E6 == Tok("", 0, 6, <<>>)
E10 == Tok("", 0, 10, <<>>)
\* "6 MV_Open.ASC", "10X/Open.ASC", "Open.ASC", "6X_Open.asc"
Paths ==
    {[suffix |-> ".ASC", name_energy |-> E6, path_energy |-> NoMatch],
     [suffix |-> ".ASC", name_energy |-> NoMatch, path_energy |-> E10],
     [suffix |-> ".ASC", name_energy |-> NoMatch, path_energy |-> NoMatch],
     [suffix |-> ".asc", name_energy |-> E6, path_energy |-> E6]}

S1 == <<Tok("", 0, 0, <<0>>), Tok("-", 0, 71, <<5>>), Tok("", 0, 30, <<0>>), Tok("", 0, 100, <<0>>)>>
NumsLines == {NumsLine(n) : n \in 0..MaxNums}
TagLines == {TagLine("%DETY", <<"DIA">>), TagLine("%DETY", <<>>)}
SampleLines == {SampleLine(S1)}

\* ------------------------------------------------ the reader, line by line
Cur == ReaderState(pc, err, num_scans, measurement_count, measurement, heap,
                   measurement_list, energy)

Install(st) ==
    /\ pc' = st.pc
    /\ err' = st.err
    /\ num_scans' = st.num_scans
    /\ measurement_count' = st.measurement_count
    /\ measurement' = st.measurement
    /\ heap' = st.heap
    /\ measurement_list' = st.measurement_list
    /\ energy' = st.energy

InitRead ==
    /\ file_path \in Paths
    /\ lines = <<>>
    /\ pc = "start"
    /\ err = None
    /\ num_scans = NoInt
    /\ measurement_count = 0
    /\ energy = NoMatch
    /\ measurement = 0
    /\ heap = <<>>
    /\ measurement_list = <<>>
    /\ rfa_header = <<>>
    /\ rfa_measurements = <<>>
    /\ rfa_footer = <<>>
    /\ k = 0
    /\ out_file = Absent
    /\ files = <<>>
    /\ fi = 0
    /\ outputs = <<>>

\* Lines 235-246.
Open ==
    /\ pc = "start"
    /\ Install(ReadStart(file_path))
    /\ UNCHANGED <<file_path, lines, writerVars, batchVars>>

\* fp.readline() returns `line`; one iteration of the loop handles it.
Read(line) ==
    /\ pc = "loop"
    /\ Len(lines) < MaxLines
    /\ lines' = Append(lines, line)
    /\ Install(ReadLine(Cur, line))
    /\ UNCHANGED <<file_path, writerVars, batchVars>>

ReadNums == \E line \in NumsLines : Read(line)
ReadStom == Read(StomLine)
ReadTag == \E line \in TagLines : Read(line)
ReadSample == \E line \in SampleLines : Read(line)
ReadEnom == Read(EnomLine)
ReadOther == Read(OtherLine)

\* fp.readline() returns "": end of input.
ReadEof ==
    /\ pc = "loop"
    /\ Install(ReadLine(Cur, EofLine))
    /\ UNCHANGED <<file_path, lines, writerVars, batchVars>>

NextRead ==
    \/ Open
    \/ ReadNums
    \/ ReadStom
    \/ ReadTag
    \/ ReadSample
    \/ ReadEnom
    \/ ReadOther
    \/ ReadEof

Spec == InitRead /\ [][NextRead]_vars

\* ------------------------------------------------ inputs of the writer
S2 == <<Tok("+", 2, 0, <<0>>), Tok("+", 1, 71, <<2, 5>>), Tok("", 1, 30, <<1>>), Tok("", 0, 98, <<5>>)>>

\* A record as read_w2 leaves it after the tagged lines of a complete block.
Sealed(n, dety, type, data_line) ==
    [W2CADMeasurement(n, E6) EXCEPT
        !.date = <<"25", "11", "2008">>,
        !.version = "02",
        !.detector_type = dety,
        !.beam_type = "PHO",
        !.data_type = type,
        !.field_size = <<"100", "100">>,
        !.SSD = "1000",
        !.points = "2",
        !.data_line = data_line]

WriterRecords(n) ==
    {Sealed(n, dety, type, dl) :
        dety \in {"CHA", "DIA"}, type \in {"OPD", "XXX"},
        dl \in {<<>>, <<S1>>, <<S1, S2>>}}

\* The objects read_w2 can have allocated: the i-th carries number i.
RECURSIVE HeapsOfLen(_)
HeapsOfLen(n) ==
    IF n = 0 THEN {<<>>}
    ELSE {Append(h, r) : h \in HeapsOfLen(n - 1), r \in WriterRecords(n)}

NonDecreasing(ml) == \A i \in 1..(Len(ml) - 1) : ml[i] <= ml[i + 1]

\* The lists read_w2 can have built over n objects: references in the order
\* the $ENOM lines were read.
ListsOver(n) ==
    UNION {{ml \in [1..len -> 1..n] : NonDecreasing(ml)} : len \in 0..MaxRecs}

InitWrite ==
    /\ file_path \in {[suffix |-> ".ASC", name_energy |-> E6, path_energy |-> NoMatch]}
    /\ lines = <<>>
    /\ pc = "write_rfa_header"
    /\ err = None
    /\ num_scans \in {NoInt} \cup {SomeInt(n) : n \in 0..MaxNums}
    /\ measurement_count = 0
    /\ energy = E6
    /\ measurement = 0
    /\ \E n \in 0..MaxRecs :
        /\ heap \in HeapsOfLen(n)
        /\ measurement_list \in ListsOver(n)
    /\ rfa_header = <<>>
    /\ rfa_measurements = <<>>
    /\ rfa_footer = <<>>
    /\ k = 0
    /\ out_file = Absent
    /\ files = <<>>
    /\ fi = 0
    /\ outputs = <<>>

\* Line 308.
WriteHeader ==
    /\ pc = "write_rfa_header"
    /\ rfa_header' = write_rfa_header(num_scans)
    /\ pc' = "write_rfa_measurements"
    /\ k' = 1
    /\ UNCHANGED <<err, readerVars, objVars, rfa_measurements, rfa_footer, out_file, batchVars>>

\* Lines 295-296: one record's block.
WriteMeasurement ==
    /\ pc = "write_rfa_measurements"
    /\ k <= Len(measurement_list)
    /\ LET r == AppendBlock([NoText EXCEPT !.text = rfa_measurements],
                            heap[measurement_list[k]])
       IN IF r.ok
          THEN /\ rfa_measurements' = r.text
               /\ k' = k + 1
               /\ UNCHANGED <<pc, err>>
          ELSE /\ pc' = "raised"
               /\ err' = r.err
               /\ UNCHANGED <<rfa_measurements, k>>
    /\ UNCHANGED <<readerVars, objVars, rfa_header, rfa_footer, out_file, batchVars>>

\* Lines 297, 310.
WriteFooter ==
    /\ pc = "write_rfa_measurements"
    /\ k > Len(measurement_list)
    /\ rfa_footer' = write_rfa_footer
    /\ pc' = "open"
    /\ UNCHANGED <<err, readerVars, objVars, rfa_header, rfa_measurements, k, out_file, batchVars>>

\* Lines 312-319.
WriteOut ==
    /\ pc = "open"
    /\ out_file' = FileOf(JoinFile(rfa_header, rfa_measurements, rfa_footer))
    /\ pc' = "written"
    /\ UNCHANGED <<err, readerVars, objVars, rfa_header, rfa_measurements, rfa_footer, k, batchVars>>

NextWrite ==
    \/ WriteHeader
    \/ WriteMeasurement
    \/ WriteFooter
    \/ WriteOut

SpecWrite == InitWrite /\ [][NextWrite]_vars

\* ------------------------------------------------ write_rfa_datablock alone
DataTypes == DOMAIN scan_type_mapping \cup DOMAIN measurement_type_mapping \cup {"XXX", ""}

\* "0.0", "-71.5", "+071.25", "5"
CoordToks ==
    {Tok("", 0, 0, <<0>>), Tok("-", 0, 71, <<5>>), Tok("+", 1, 71, <<2, 5>>),
     Tok("", 0, 5, <<>>)}
\* "100.0", "98.75"
DoseToks == {Tok("", 0, 100, <<0>>), Tok("", 0, 98, <<7, 5>>)}
Z30 == Tok("", 0, 30, <<0>>)

\* Sample lines: four numeric tokens; three tokens; a token float() rejects.
BlockSamples ==
    {<<a, b, Z30, d>> : a \in CoordToks, b \in CoordToks, d \in DoseToks}
    \cup {<<Z30, Z30, Z30>>, <<Z30, Z30, Z30, NotANumber>>}

DataLines == UNION {[1..n -> BlockSamples] : n \in 0..MaxSamples}

Electron(m, spd) == [m EXCEPT !.beam_type = "ELE", !.SSD = "", !.SPD = spd]

BlockRecords ==
    {Sealed(1, "CHA", type, <<S1>>) : type \in DataTypes}
    \cup {Sealed(1, dety, "OPD", dl) : dety \in {"CHA", "DIO", "DIA", ""}, dl \in DataLines}
    \cup {Electron(Sealed(1, "DIO", "DPR", <<S2>>), spd) :
            spd \in {NoAttr, NotANumber, Tok("", 0, 100, <<>>)}}
    \cup {[Sealed(1, "CHA", "WDP", <<S1, S2>>) EXCEPT !.date = d, !.field_size = f, !.beam_type = b] :
            d \in {<<"">>, <<"25", "11", "2008">>},
            f \in {<<"">>, <<"100", "100">>},
            b \in {"", "PHO"}}

InitBlock ==
    /\ file_path \in {[suffix |-> ".ASC", name_energy |-> E6, path_energy |-> NoMatch]}
    /\ lines = <<>>
    /\ pc = "write_rfa_datablock"
    /\ err = None
    /\ num_scans = NoInt
    /\ measurement_count = 1
    /\ energy = E6
    /\ measurement = 1
    /\ \E m \in BlockRecords : heap = <<m>>
    /\ measurement_list = <<1>>
    /\ rfa_header = <<>>
    /\ rfa_measurements = <<>>
    /\ rfa_footer = <<>>
    /\ k = 1
    /\ out_file = Absent
    /\ files = <<>>
    /\ fi = 0
    /\ outputs = <<>>

\* measurement.write_rfa_datablock() on the one record (line 296).
Datablock ==
    /\ pc = "write_rfa_datablock"
    /\ LET r == write_rfa_datablock(heap[measurement_list[k]])
       IN /\ pc' = IF r.ok THEN "block_returned" ELSE "raised"
          /\ err' = r.err
          /\ rfa_measurements' = r.text
    /\ UNCHANGED <<readerVars, objVars, rfa_header, rfa_footer, k, out_file, batchVars>>

NextBlock == Datablock

SpecBlock == InitBlock /\ [][NextBlock]_vars

\* ------------------------------------------------------- process_files
D0 == Tok("", 0, 0, <<>>)

Block(dety) ==
    <<StomLine,
      TagLine("%VERSION", <<"02">>),
      TagLine("%DATE", <<<<"25", "11", "2008">>>>),
      TagLine("%DETY", <<dety>>),
      TagLine("%BMTY", <<"PHO">>),
      TagLine("%TYPE", <<"OPD">>),
      TagLine("%FLSZ", <<<<"100", "100">>>>),
      TagLine("%SSD", <<"1000">>),
      TagLine("%DPTH", <<D0>>),
      TagLine("%PNTS", <<"2">>),
      SampleLine(S1),
      SampleLine(S2),
      EnomLine>>

\* The directory: file names, in the order os.walk yields them.
FileNames ==
    {"6 MV_Open.ASC", "10X/Open.ASC", "6X_Open.asc", "Open.ASC",
     "6X_Truncated.ASC", "6X_Diamond.ASC", "readme.txt"}

PathOf(name) ==
    [suffix |-> CASE name = "6X_Open.asc" -> ".asc"
                  [] name = "readme.txt" -> ".txt"
                  [] OTHER -> ".ASC",
     name_energy |-> CASE name \in {"6 MV_Open.ASC", "6X_Open.asc", "6X_Truncated.ASC",
                                      "6X_Diamond.ASC"} -> E6
                       [] OTHER -> NoMatch,
     path_energy |-> CASE name = "10X/Open.ASC" -> E10
                       [] name \in {"6X_Open.asc", "6X_Truncated.ASC", "6X_Diamond.ASC"} -> E6
                       [] OTHER -> NoMatch]

ContentOf(name) ==
    CASE name = "6X_Truncated.ASC" -> <<NumsLine(2)>> \o Block("CHA") \o <<StomLine, TagLine("%DETY", <<"CHA">>)>>
      [] name = "6X_Diamond.ASC" -> <<NumsLine(2)>> \o Block("CHA") \o Block("DIA")
      [] name = "readme.txt" -> <<OtherLine>>
      [] OTHER -> <<NumsLine(1)>> \o Block("CHA")

\* file.lower().endswith(".asc")
LowerEndsWithAsc(name) == PathOf(name).suffix \in {".ASC", ".asc"}

InitBatch ==
    /\ file_path \in {[suffix |-> "", name_energy |-> NoMatch, path_energy |-> NoMatch]}
    /\ lines = <<>>
    /\ pc = "walk"
    /\ err = None
    /\ num_scans = NoInt
    /\ measurement_count = 0
    /\ energy = NoMatch
    /\ measurement = 0
    /\ heap = <<>>
    /\ measurement_list = <<>>
    /\ rfa_header = <<>>
    /\ rfa_measurements = <<>>
    /\ rfa_footer = <<>>
    /\ k = 0
    /\ out_file = Absent
    /\ files \in UNION {[1..n -> FileNames] : n \in 0..MaxFiles}
    /\ fi = 0
    /\ outputs = [i \in 1..Len(files) |-> Absent]

\* The body of the loop of process_files (lines 324-337) on the next file;
\* an exception of read_w2 or write_rfa_file leaves process_files.
VisitFile ==
    /\ pc = "walk"
    /\ fi < Len(files)
    /\ fi' = fi + 1
    /\ LET name == files[fi + 1]
           rd == read_w2(PathOf(name), ContentOf(name))
           wr == write_rfa_file(rd.num_scans, rd.heap, rd.measurement_list)
       IN IF ~LowerEndsWithAsc(name)
          THEN UNCHANGED <<pc, err, outputs>>
          ELSE IF rd.pc = "raised"
          THEN pc' = "raised" /\ err' = rd.err /\ UNCHANGED outputs
          ELSE IF ~wr.ok
          THEN pc' = "raised" /\ err' = wr.err /\ UNCHANGED outputs
          ELSE outputs' = [outputs EXCEPT ![fi + 1] = FileOf(wr.text)]
               /\ UNCHANGED <<pc, err>>
    /\ UNCHANGED <<readerVars, objVars, writerVars, files>>

\* os.walk is exhausted: process_files returns.
WalkEnd ==
    /\ pc = "walk"
    /\ fi = Len(files)
    /\ pc' = "done"
    /\ UNCHANGED <<err, readerVars, objVars, writerVars, batchVars>>

NextBatch ==
    \/ VisitFile
    \/ WalkEnd

SpecBatch == InitBatch /\ [][NextBatch]_vars

\* ======================================================== the claims
\* ------------------------------------------------ read_w2 (Spec)
Positions(ls, kind) == {i \in 1..Len(ls) : ls[i].k = kind}

\* Some $STOM line of ls has no $ENOM line after it.
Unsealed(ls) ==
    \E i \in Positions(ls, "STOM") : \A j \in Positions(ls, "ENOM") : j < i

\* Every tagged line of ls is "%KEY value" with a key of the dictionary.
WellTagged(ls) ==
    \A i \in Positions(ls, "TAG") :
        Len(ls[i].toks) = 1 /\ ls[i].key \in DOMAIN w2cad_measurement_dictionary

PathOk(path) ==
    path.suffix = ".ASC" /\ (path.name_energy # NoMatch \/ path.path_energy # NoMatch)

\* The number of $STOM ... $ENOM blocks of ls when ls is a sequence of blocks
\* (with blank lines allowed around them); -1 when it is not.
RECURSIVE CountBlocks(_, _, _)
CountBlocks(ls, inside, c) ==
    IF ls = <<>> THEN (IF inside THEN -1 ELSE c)
    ELSE LET h == Head(ls)
         IN IF inside
            THEN IF h.k \in {"TAG", "SAMPLE", "OTHER"} THEN CountBlocks(Tail(ls), TRUE, c)
                 ELSE IF h.k = "ENOM" THEN CountBlocks(Tail(ls), FALSE, c + 1)
                 ELSE -1
            ELSE IF h.k = "STOM" THEN CountBlocks(Tail(ls), TRUE, c)
                 ELSE IF h.k = "OTHER" THEN CountBlocks(Tail(ls), FALSE, c)
                 ELSE -1

\* A count directive, then blocks, the count being the number of blocks.
WellFormed(ls) ==
    /\ Len(ls) >= 1
    /\ ls[1].k = "NUMS"
    /\ CountBlocks(Tail(ls), FALSE, 0) = ls[1].n

\* The sample lines of the b-th block of a well-formed ls, in order.
SamplesOfBlock(ls, b) ==
    LET stoms == Positions(ls, "STOM")
        s == CHOOSE i \in stoms : Cardinality({j \in stoms : j <= i}) = b
        e == CHOOSE i \in Positions(ls, "ENOM") :
                i > s /\ \A j \in Positions(ls, "ENOM") : j > s => i <= j
        IsSample(l) == l.k = "SAMPLE"
        sel == SelectSeq(SubSeq(ls, s + 1, e - 1), IsSample)
    IN [i \in 1..Len(sel) |-> sel[i].toks]

\* C1: whenever a $STOM line has no $ENOM line after it before end of input,
\* read_w2 does not return normally (it fails instead of dropping the record).
C1_UnsealedNeverReturns == pc = "returned" => ~Unsealed(lines)

\* C2: for a well-formed file, after read_w2 returns the list has num_scans
\* entries and the b-th sealed block is in the list exactly once, at place b,
\* with the samples of that block.
C2_WellFormedCount ==
    (pc = "returned" /\ WellFormed(lines)) =>
        /\ num_scans.some
        /\ Len(measurement_list) = num_scans.v
        /\ \A i, j \in 1..Len(measurement_list) :
                measurement_list[i] = measurement_list[j] => i = j
        /\ \A b \in 1..Len(measurement_list) :
                /\ heap[measurement_list[b]].measurement_number = b
                /\ heap[measurement_list[b]].data_line = SamplesOfBlock(lines, b)

\* A well-formed file of two blocks, one of them with a sample, was read.
C2_Witness ==
    /\ pc = "returned"
    /\ WellFormed(lines)
    /\ Len(measurement_list) = 2
    /\ \E b \in 1..2 : heap[measurement_list[b]].data_line # <<>>

\* C3: on every input on which read_w2 returns, the measurement numbers of
\* the list, in list order, are 1, 2, ..., N.
C3_NumbersDense ==
    pc = "returned" =>
        \A i \in 1..Len(measurement_list) :
            heap[measurement_list[i]].measurement_number = i

\* C6: a .ASC source that leaves no record unsealed (zero blocks and lines
\* before the first $STOM included) is read to the end without an exception,
\* and the list then holds one entry per sealed record.
C6_SealedSourceReturns ==
    (PathOk(file_path) /\ WellTagged(lines) /\ ~Unsealed(lines)) =>
        /\ pc # "raised"
        /\ pc = "returned" =>
                Len(measurement_list) = Cardinality(Positions(lines, "ENOM"))

\* C10: a record that is in measurement_list is not changed by any later
\* line: a step leaves every record of the list as it was.
C10_SealedRecordsFrozen ==
    [][\A i \in 1..Len(measurement_list) :
            heap'[measurement_list[i]] = heap[measurement_list[i]]]_vars

\* ------------------------------------------------ write_rfa_file (SpecWrite)
SupportedDetectors == {"CHA", "DIO"}
SupportedDataTypes ==
    {"OPD", "OPP", "WDD", "WDD_SSD80", "WDD_SSD120", "WDP", "WLP", "DPR", "BLD",
     "MeasuredDepthDosesForApplicator", "MeasuredDepthDosesForOpenBeam",
     "MeasuredProfileForOpenBeam"}

Unsupported(m) ==
    m.detector_type \notin SupportedDetectors \/ m.data_type \notin SupportedDataTypes

UnsupportedInList ==
    {i \in 1..Len(measurement_list) : Unsupported(heap[measurement_list[i]])}

\* C4: a record with an unsupported detector or data type makes
\* write_rfa_datablock raise and return no text, and write_rfa_file then never
\* reaches the output file: nothing is written, at any point of the call.
C4_UnsupportedWritesNothing ==
    /\ \A i \in UnsupportedInList :
            LET b == write_rfa_datablock(heap[measurement_list[i]])
            IN ~b.ok /\ b.text = <<>> /\ b.err.type = "KeyError"
    /\ UnsupportedInList # {} =>
            /\ pc \in {"write_rfa_header", "write_rfa_measurements", "raised"}
            /\ out_file = Absent
    /\ pc = "raised" => out_file = Absent

\* write_rfa_file raised on a diamond-detector record after the block of an
\* earlier record had been composed.
C4_Witness ==
    /\ pc = "raised"
    /\ k = 2
    /\ rfa_measurements # <<>>
    /\ heap[measurement_list[k]].detector_type = "DIA"
    /\ heap[measurement_list[k]].data_type \in SupportedDataTypes
    /\ out_file = Absent

IsNumberLine(l) == l.tag = "# Measurement number"
IsEom(l) == l.tag = ":EOM # End of Measurement"
IsEof(l) == l.tag = ":EOF # End of File"
IsMsr(l) == l.tag = ":MSR"

RECURSIVE BlocksOf(_, _)
BlocksOf(h, ml) ==
    IF ml = <<>> THEN <<>>
    ELSE write_rfa_datablock(h[Head(ml)]).text \o BlocksOf(h, Tail(ml))

\* C5: when every record transcodes, the document written is the header,
\* one block per record of the list in list order (the i-th block carrying
\* the i-th record's measurement number), then the :EOF line.
C5_OneBlockPerRecordInOrder ==
    /\ pc = "raised" =>
            \E i \in 1..Len(measurement_list) :
                ~write_rfa_datablock(heap[measurement_list[i]]).ok
    /\ pc = "written" =>
            LET doc == out_file.text
                nums == SelectSeq(doc, IsNumberLine)
            IN /\ out_file.exists
               /\ IsMsr(doc[1]) /\ doc[1].n = num_scans
               /\ Len(SelectSeq(doc, IsMsr)) = 1
               /\ IsEof(doc[Len(doc)])
               /\ Len(SelectSeq(doc, IsEof)) = 1
               /\ Len(SelectSeq(doc, IsEom)) = Len(measurement_list)
               /\ Len(nums) = Len(measurement_list)
               /\ \A i \in 1..Len(nums) :
                    nums[i].n.v = heap[measurement_list[i]].measurement_number
               /\ SubSeq(doc, 3, Len(doc) - 2) = BlocksOf(heap, measurement_list)

\* A document of two different records was written.
C5_Witness ==
    /\ pc = "written"
    /\ Len(measurement_list) = 2
    /\ measurement_list[1] # measurement_list[2]
    /\ heap[measurement_list[1]].data_line # heap[measurement_list[2]].data_line

\* ------------------------------------------------ write_rfa_datablock (SpecBlock)
IsSampleLine(l) == l.tag = "="

\* The value of a numeric string, in hundredths, without its sign.
Hundredths(t) ==
    t.ip * 100 + (IF Len(t.fr) >= 1 THEN t.fr[1] * 10 ELSE 0)
               + (IF Len(t.fr) >= 2 THEN t.fr[2] ELSE 0)

\* f is t written with one decimal place: sign kept ("+" dropped), no leading
\* zeros, one digit after the point, the value rounded to the nearest tenth.
OneDecimalOf(f, t) ==
    /\ f.sgn = (IF t.sgn = "-" THEN "-" ELSE "")
    /\ f.lead = 0
    /\ f.dp = "."
    /\ Len(f.fr) = 1
    /\ Hundredths(f) - Hundredths(t) \in -5..5

Swap == <<2, 1, 3, 4>>

\* The n lines before the last line of txt are its "=" lines, the last is :EOM.
SampleLinesThenEom(txt, n) ==
    /\ Len(SelectSeq(txt, IsSampleLine)) = n
    /\ Len(SelectSeq(txt, IsEom)) = 1
    /\ IsEom(txt[Len(txt)])
    /\ \A i \in 1..n : IsSampleLine(txt[Len(txt) - 1 - n + i])

\* C7 (as amended): for a record with n >= 1 samples the block has exactly n
\* "=" lines right before its :EOM line, in sample order, and the fields of
\* the i-th are tokens 2, 1, 3, 4 of the i-th sample, each written with one
\* decimal place.
C7_SwappedAndFormatted ==
    pc = "block_returned" =>
        LET dl == heap[measurement_list[k]].data_line
            eq == SelectSeq(rfa_measurements, IsSampleLine)
        IN /\ Len(dl) >= 1
           /\ SampleLinesThenEom(rfa_measurements, Len(dl))
           /\ \A i \in 1..Len(dl) : \A j \in 1..4 :
                OneDecimalOf(eq[i].t[j], dl[i][Swap[j]])

\* C7 as stated: the fields of the i-th "=" line are tokens 2, 1, 3, 4 of the
\* i-th sample themselves.
C7_FieldsAreTheTokens ==
    pc = "block_returned" =>
        LET dl == heap[measurement_list[k]].data_line
            eq == SelectSeq(rfa_measurements, IsSampleLine)
        IN /\ Len(dl) >= 1
           /\ SampleLinesThenEom(rfa_measurements, Len(dl))
           /\ \A i \in 1..Len(dl) : \A j \in 1..4 :
                eq[i].t[j] = dl[i][Swap[j]]

\* A block of two samples was written, the first with different first and
\* second coordinates and a token that is not in one-decimal form.
C7_Witness ==
    /\ pc = "block_returned"
    /\ LET dl == heap[measurement_list[k]].data_line
       IN /\ Len(dl) = 2
          /\ Hundredths(dl[1][1]) # Hundredths(dl[1][2])
          /\ Len(dl[1][2].fr) = 2
          /\ dl[1] # dl[2]

\* C8: the scan-type table and the measurement-type table have the same keys,
\* so no record passes the scan-type lookup and then misses the
\* measurement-type lookup.
C8_TablesShareKeys ==
    /\ DOMAIN scan_type_mapping = DOMAIN measurement_type_mapping
    /\ pc = "raised" => err.at # "measurement_type_mapping"
    /\ pc = "block_returned" =>
            /\ heap[measurement_list[k]].data_type \in DOMAIN scan_type_mapping
            /\ heap[measurement_list[k]].data_type \in DOMAIN measurement_type_mapping

\* A diagonal-profile record passed both lookups and its block was written.
C8_Witness ==
    /\ pc = "block_returned"
    /\ heap[measurement_list[k]].data_type = "DPR"
    /\ \E i \in 1..Len(rfa_measurements) :
            rfa_measurements[i].tag = "%MEA" /\ rfa_measurements[i].s = <<"2">>

\* ------------------------------------------------ process_files (SpecBatch)
\* C9: when process_files has ended, by returning or by an exception of one
\* file, every discovered .ASC/.asc file has been handed to the reader.
C9_SiblingsStillProcessed ==
    pc \in {"done", "raised"} =>
        \A i \in 1..Len(files) : LowerEndsWithAsc(files[i]) => i <= fi

=============================================================================
